---- MODULE Spec2Model ----
(***************************************************************************)
(* A model of few.py: the interpretation pipeline (interpret_project), the *)
(* JSON extraction it applies to a generation response, the project        *)
(* bootstrapper (initialize_few_project) and the cache/project             *)
(* synchronizer (handle_listen, handle_litany).                            *)
(*                                                                         *)
(* Text is modelled as a sequence of tokens.  A token is either one        *)
(* character ("{", "}", "nl", "sp") or a run of characters that the code   *)
(* only ever treats as a unit ("BT3", the three backticks of a fence,      *)
(* "json", a name, a JSON member).                                         *)
(***************************************************************************)
EXTENDS Integers, Sequences, FiniteSets, TLC

VARIABLES
    \* ---- interpret_project -------------------------------------------
    pc,             \* position in interpret_project
    key_few,        \* content of ~/few/.gemini.key, or NoKey
    key_dotfew,     \* content of ~/.few/.gemini.key, or NoKey
    api_key,        \* local api_key of the current pass
    prompted,       \* how many times input() asked the operator for a key
    retry_count,    \* local retry_count
    response_text,  \* local response_text
    result,         \* local result (the parsed JSON object's members)
    parse_err_of,   \* which response of the pass the local e was raised for
    pending,        \* files of result["files"] still to be written
    files_written,  \* project files written by this run
    log,            \* TYPE tags of the records in ~/.few/few-raw.log
    gen_calls,      \* generate_content calls made in the current pass
    passes,         \* iterations of the outer while True started so far
    pass_raised,    \* what raised in the current pass: "none", "generate", "log", "write"
    pass_class,     \* the class of the exception raised in the current pass
    log_failed,     \* a write of the log has raised in this run
    pass_all_malformed, \* no response of the current pass is parseable
    restarted,      \* the current pass was entered by the handler's continue
    ended,          \* how interpret_project ended, "none" while it runs
    reported,       \* the last message printed to the operator
    reported_of,    \* the response whose parse error was printed
    reported_error, \* the text line 526 printed after "Error: ", <<>> if none
    \* ---- the process ---------------------------------------------
    exit_code,      \* exit status of the (last) process, -1 while it runs
    \* ---- PARSE applied to the three framings of one payload ----------
    payload, res_json_fence, res_fence, res_bare,
    \* ---- the machine and the project: listen, litany ----------------
    git_installed,      \* shutil.which("git")
    firebase_available, \* shutil.which("firebase")
    parseme,            \* PARSEME.md: "absent", "user", "fetched", "default"
    readme,             \* README.md
    words_dir,          \* .few/words exists
    litany,             \* few.litany.yaml
    gitignore,          \* .gitignore
    cache,              \* ~/few/words/<name>, per canonical name
    project_words,      \* .few/words/<name>, per canonical name
    lit_active,         \* a litany process is inside its for loop
    lit_queue,          \* the packages that loop has still to process
    cmds,               \* commands run so far
    last_cmd,           \* the last command started
    last_boot,          \* what the last initialize_few_project call did
    last_listen,        \* what the last handle_listen call did
    \* ---- the prompt command -----------------------------------------
    sources,            \* the *.few.md files and PARSEME.md of the project
    prompt_pc,          \* position in handle_prompt
    printed,            \* what handle_prompt printed
    \* ---- one reference, listened to and then replayed by litany ------
    listen_arg,         \* args.package of the listen command
    listen_paths,       \* what that listen addressed
    litany_paths        \* what the litany replay of its entry addressed

interpVars == <<pc, key_few, key_dotfew, api_key, prompted, retry_count,
                response_text, result, parse_err_of, pending, files_written,
                log, gen_calls, passes, pass_raised, pass_class, log_failed,
                pass_all_malformed,
                restarted, ended, reported, reported_of, reported_error>>
parseVars == <<payload, res_json_fence, res_fence, res_bare>>
syncVars == <<git_installed, firebase_available, parseme, readme, words_dir,
              litany, gitignore, cache, project_words, lit_active, lit_queue,
              cmds, last_cmd, last_boot, last_listen>>
promptVars == <<sources, prompt_pc, printed>>
resolveVars == <<listen_arg, listen_paths, litany_paths>>
vars == <<interpVars, exit_code, parseVars, syncVars, promptVars, resolveVars>>
\* what interpret_project leaves alone
notInterp == <<parseVars, syncVars, promptVars, resolveVars>>
\* what the PARSE specification leaves alone
notParse == <<interpVars, exit_code, syncVars, promptVars, resolveVars>>
\* what listen and litany leave alone
notSync == <<interpVars, parseVars, promptVars, resolveVars>>
\* what the prompt command leaves alone besides the files it reads
notPrompt == <<interpVars, parseVars, syncVars, resolveVars>>
\* what the resolution of one reference leaves alone
notResolve == <<interpVars, exit_code, parseVars, syncVars, promptVars>>

----------------------------------------------------------------------------
(* Bounds of the model *)

\* generation passes (iterations of the outer loop) one run may start
MaxPasses == 3
\* members of a JSON payload drawn for the PARSE specification
MaxBodyLen == 2
\* listen and litany commands run one after the other
MaxCmds == 2
\* the longest reference given to listen, in tokens
MaxRefLen == 5

----------------------------------------------------------------------------
(* Text helpers *)

Range(s) == {s[i] : i \in 1..Len(s)}

\* str.lower() on a token
Lower(t) == IF t = "JSON" THEN "json" ELSE t

\* characters removed by str.strip()
IsWs(t) == t \in {"nl", "sp"}

\* tokens that are one character long
SingleChar == {"{", "}", "nl", "sp"}

RECURSIVE LStrip(_)
LStrip(s) == IF s # <<>> /\ IsWs(Head(s)) THEN LStrip(Tail(s)) ELSE s

RECURSIVE RStrip(_)
RStrip(s) ==
    IF s # <<>> /\ IsWs(s[Len(s)]) THEN RStrip(SubSeq(s, 1, Len(s) - 1)) ELSE s

Strip(s) == RStrip(LStrip(s))

\* str.find(tok, from): the first position >= from holding tok, 0 for -1
Find(s, tok, from) ==
    LET hits == {i \in from..Len(s) : s[i] = tok}
    IN IF hits = {} THEN 0 ELSE CHOOSE i \in hits : \A j \in hits : i <= j

\* str.rfind(tok): the last position holding tok, 0 for -1
RFind(s, tok) ==
    LET hits == {i \in 1..Len(s) : s[i] = tok}
    IN IF hits = {} THEN 0 ELSE CHOOSE i \in hits : \A j \in hits : j <= i

\* positions where a fence followed by json starts in response_text.lower()
JsonFenceAt(s) ==
    {i \in 1..(Len(s) - 1) : s[i] = "BT3" /\ Lower(s[i + 1]) = "json"}

\* text[from:-1]: the slice taken when find() returned -1 drops the last
\* character; a longer token that loses its last character is no token
SliceToMinusOne(s, from) ==
    IF from > Len(s) THEN <<>>
    ELSE IF from = Len(s)
         THEN (IF s[Len(s)] \in SingleChar THEN <<>> ELSE <<"junk">>)
         ELSE SubSeq(s, from, Len(s) - 1)
              \o (IF s[Len(s)] \in SingleChar THEN <<>> ELSE <<"junk">>)

----------------------------------------------------------------------------
(* PARSE: lines 466-478 of interpret_project *)

\* what may stand between the braces of a JSON object: the members
\* "success": true (st), "success": false with an "error" (sf), a "files"
\* entry for path p1 / p2 (f1, f2), and text inside a string value
ContentTokens == {"st", "sf", "f1", "f2", "e1", "e2", "BT3", "json", "JSON"}

\* json.loads: surrounding whitespace is accepted, anything else around or
\* inside the object is a JSONDecodeError; the value is the members
JsonLoads(s) ==
    LET t == Strip(s)
    IN IF /\ Len(t) >= 2
          /\ t[1] = "{"
          /\ t[Len(t)] = "}"
          /\ \A i \in 2..(Len(t) - 1) : t[i] \in ContentTokens
       THEN [ok |-> TRUE, value |-> SubSeq(t, 2, Len(t) - 1)]
       ELSE [ok |-> FALSE, value |-> <<>>]

\* the json_text of the json-fence branch (lines 468-470)
JsonFenceText(s) ==
    LET at == CHOOSE i \in JsonFenceAt(s) : \A j \in JsonFenceAt(s) : i <= j
        json_start == at + 2
        json_end == Find(s, "BT3", json_start)
    IN Strip(IF json_end = 0 THEN SliceToMinusOne(s, json_start)
             ELSE SubSeq(s, json_start, json_end - 1))

\* the json_text of the generic fence branch (lines 472-474)
FenceText(s) ==
    LET json_start == Find(s, "BT3", 1) + 1
        json_end == RFind(s, "BT3")
    IN Strip(SubSeq(s, json_start, json_end - 1))

\* lines 467-476: which text is handed to json.loads
ExtractJsonText(s) ==
    IF JsonFenceAt(s) # {} THEN JsonFenceText(s)
    ELSE IF "BT3" \in Range(s) THEN FenceText(s)
    ELSE s

\* which of the three strategies ExtractJsonText takes
Strategy(s) ==
    IF JsonFenceAt(s) # {} THEN "json_fence"
    ELSE IF "BT3" \in Range(s) THEN "fence"
    ELSE "raw"

ParseResponse(s) == JsonLoads(ExtractJsonText(s))

\* result.get("success", False): the last "success" member decides, none is False
Success_Always(members) == TRUE
Success(members) ==
    LET at == {i \in 1..Len(members) : members[i] \in {"st", "sf"}}
    IN at # {} /\ members[CHOOSE i \in at : \A j \in at : j <= i] = "st"

\* lines 525-526: result["error"] when the object has that member (the
\* last one decides), <<>> when it has none
ErrorOf(members) ==
    LET at == {i \in 1..Len(members) : members[i] \in {"e1", "e2"}}
    IN IF at = {} THEN <<>>
       ELSE <<members[CHOOSE i \in at : \A j \in at : j <= i]>>

\* the paths of result.get("files", []), in order
RECURSIVE FilePaths(_)
FilePaths(members) ==
    IF members = <<>> THEN <<>>
    ELSE (IF Head(members) = "f1" THEN <<"p1">>
          ELSE IF Head(members) = "f2" THEN <<"p2">>
          ELSE <<>>) \o FilePaths(Tail(members))

\* the three framings of a JSON text a response may use
JsonText(members) == <<"{">> \o members \o <<"}">>
AsJsonFence(text) == <<"BT3", "json", "nl">> \o text \o <<"nl", "BT3">>
AsFence(text) == <<"BT3", "nl">> \o text \o <<"nl", "BT3">>
AsBare(text) == text

----------------------------------------------------------------------------
(* The interpretation pipeline: interpret_project, lines 415-574 *)

NoKey == "nokey"
\* keys the operator may type at the input() prompt
Keys == {"k1", "k2"}

\* max_retries, line 461
max_retries == 3

\* JSON payloads the generation service may answer with
InterpPayloads ==
    {<<"st", "f1">>, <<"sf">>, <<"st", "f1", "BT3", "f2">>, <<"st">>,
     <<"sf", "e1", "f2">>}

\* texts generate_content may return: each payload in each framing, prose,
\* and a truncated object
ResponseTexts ==
    {AsBare(JsonText(m)) : m \in InterpPayloads}
    \cup {AsFence(JsonText(m)) : m \in InterpPayloads}
    \cup {AsJsonFence(JsonText(m)) : m \in InterpPayloads}
    \cup {<<"x">>, <<"{", "st", "f1">>}

\* what the handler of lines 557-574 tells apart: an exception carrying
\* response.status_code == 429, one whose message holds "api" and one of
\* "key", "auth", "invalid", and any other
ExcClasses == {"quota", "auth", "other"}
\* an OSError of a file write carries no response attribute; its message
\* names the path
FileExcClasses == {"auth", "other"}

InitInterp ==
    /\ pc = "acquire"
    /\ key_few \in {NoKey} \cup Keys
    /\ key_dotfew \in {NoKey, "k1"}
    /\ api_key = NoKey
    /\ prompted = 0
    /\ retry_count = 0
    /\ response_text = <<>>
    /\ result = <<>>
    /\ parse_err_of = 0
    /\ pending = <<>>
    /\ files_written = {}
    /\ log = <<>>
    /\ gen_calls = 0
    /\ passes = 0
    /\ pass_raised = "none"
    /\ pass_class = "none"
    /\ log_failed = FALSE
    /\ pass_all_malformed = TRUE
    /\ restarted = FALSE
    /\ ended = "none"
    /\ reported = "none"
    /\ reported_of = 0
    /\ reported_error = <<>>
    /\ exit_code = -1

\* interpret_project returns to main, which returns: exit status 0
Return(how, message) ==
    /\ pc' = "returned"
    /\ ended' = how
    /\ reported' = message
    /\ exit_code' = 0

\* lines 567-570: the key file the handler removes
UnlinkKey ==
    /\ key_dotfew' = NoKey
    /\ UNCHANGED key_few

\* lines 560-572: the branch of the handler an exception of class c takes
HandlerBranch_QuotaAsAuth(c) == IF c = "quota" THEN "auth" ELSE c
HandlerBranch_AuthAsOther(c) == IF c = "auth" THEN "other" ELSE c
HandlerBranch(c) == c

\* except Exception, lines 557-574, for an exception of class c raised by src
Handle(src, c) ==
    /\ pass_raised' = src
    /\ pass_class' = c
    /\ log_failed' = (log_failed \/ src = "log")
    /\ UNCHANGED reported_of
    /\ IF HandlerBranch(c) = "quota"
       THEN /\ Return("quota", "quota")
            /\ UNCHANGED <<key_few, key_dotfew, restarted>>
       ELSE IF HandlerBranch(c) = "auth"
       THEN /\ passes < MaxPasses
            /\ UnlinkKey
            /\ pc' = "acquire"
            /\ restarted' = TRUE
            /\ reported' = "auth"
            /\ UNCHANGED <<ended, exit_code>>
       ELSE /\ Return("other", "other")
            /\ UNCHANGED <<key_few, key_dotfew, restarted>>

\* get_api_key (lines 316-334), then lines 423-448: configure, gather, prompt
GetApiKey ==
    /\ pc = "acquire"
    /\ IF key_few # NoKey
       THEN /\ api_key' = key_few
            /\ UNCHANGED <<key_few, prompted>>
       ELSE \E k \in Keys :
            /\ key_few' = k
            /\ api_key' = k
            /\ prompted' = prompted + 1
    /\ passes' = passes + 1
    /\ gen_calls' = 0
    /\ pass_raised' = "none"
    /\ pass_class' = "none"
    /\ UNCHANGED log_failed
    /\ pass_all_malformed' = TRUE
    /\ pc' = "log_prompt"
    /\ UNCHANGED <<key_dotfew, retry_count, response_text, result,
                   parse_err_of, pending, files_written, log, restarted,
                   ended, reported, reported_of, reported_error, exit_code>>
    /\ UNCHANGED notInterp

\* append_to_log (lines 398-413) called at position at with tag type: the
\* record is appended, or the write raises into the handler
AppendToLog(at, type, next) ==
    /\ pc = at
    /\ \/ /\ log' = Append(log, type)
          /\ pc' = next
          /\ retry_count' = IF at = "log_response" THEN 0 ELSE retry_count
          /\ UNCHANGED <<key_few, key_dotfew, restarted, ended, reported,
                         reported_of, exit_code, pass_raised, pass_class,
                         log_failed>>
       \/ /\ \E c \in FileExcClasses : Handle("log", c)
          /\ UNCHANGED <<log, retry_count>>
    /\ UNCHANGED <<api_key, prompted, response_text, result, parse_err_of,
                   pending, files_written, gen_calls, passes,
                   pass_all_malformed, reported_error>>
    /\ UNCHANGED notInterp

\* line 451
LogPrompt == AppendToLog("log_prompt", "PROMPT", "generate")
\* line 458, then lines 461-462
LogResponse_AsPrompt == AppendToLog("log_response", "PROMPT", "parse")
LogResponse == AppendToLog("log_response", "RESPONSE", "parse")
\* line 509
LogFixPrompt == AppendToLog("log_fix_prompt", "FIX_PROMPT", "generate_fix")
\* line 516
LogFixResponse == AppendToLog("log_fix_response", "FIX_RESPONSE", "parse")

\* model.generate_content(...) and response.text at position at: a text
\* comes back, or the call raises into the handler
GenerateContent(at, next) ==
    /\ pc = at
    /\ \/ /\ \E t \in ResponseTexts :
             /\ response_text' = t
             /\ pass_all_malformed' =
                    (pass_all_malformed /\ ~ParseResponse(t).ok)
          /\ gen_calls' = gen_calls + 1
          /\ pc' = next
          /\ UNCHANGED <<key_few, key_dotfew, restarted, ended, reported,
                         reported_of, exit_code, pass_raised, pass_class,
                         log_failed>>
       \/ /\ \E c \in ExcClasses : Handle("generate", c)
          /\ UNCHANGED <<response_text, gen_calls, pass_all_malformed>>
    /\ UNCHANGED <<api_key, prompted, retry_count, result, parse_err_of,
                   pending, files_written, log, passes, reported_error>>
    /\ UNCHANGED notInterp

\* lines 454-455
Generate == GenerateContent("generate", "log_response")
\* lines 512-513
GenerateFix == GenerateContent("generate_fix", "log_fix_response")

\* one iteration of while retry_count < max_retries up to the fix prompt
\* (lines 464-506), and lines 518-527 when the loop is left
Parse ==
    /\ pc = "parse"
    /\ retry_count < max_retries
    /\ LET r == ParseResponse(response_text)
       IN IF r.ok
          THEN /\ result' = r.value
               /\ UNCHANGED <<retry_count, parse_err_of, reported_of>>
               /\ IF ~Success(r.value)
                  THEN /\ Return("compile_failed", "compile_failed")
                       /\ reported_error' = ErrorOf(r.value)
                       /\ UNCHANGED pending
                  ELSE /\ pending' = FilePaths(r.value)
                       /\ pc' = "materialize"
                       /\ UNCHANGED <<ended, reported, exit_code,
                                      reported_error>>
          ELSE /\ retry_count' = retry_count + 1
               /\ parse_err_of' = gen_calls
               /\ UNCHANGED <<result, pending, reported_error>>
               /\ IF retry_count + 1 >= max_retries
                  THEN /\ Return("exhausted", "parse_error")
                       /\ reported_of' = gen_calls
                  ELSE /\ pc' = "log_fix_prompt"
                       /\ reported' = "parse_retry"
                       /\ UNCHANGED <<ended, exit_code, reported_of>>
    /\ UNCHANGED <<key_few, key_dotfew, api_key, prompted, response_text,
                   files_written, log, gen_calls, passes, pass_raised,
                   pass_class, log_failed,
                   pass_all_malformed, restarted>>
    /\ UNCHANGED notInterp

\* one iteration of for file_info in result.get("files", []) (lines 531-549),
\* and lines 551-555 when the files are exhausted
Materialize ==
    /\ pc = "materialize"
    /\ IF pending = <<>>
       THEN /\ Return("materialized", "completed")
            /\ UNCHANGED <<pending, files_written, key_few, key_dotfew,
                           restarted, reported_of, pass_raised,
                           pass_class,
                         log_failed>>
       ELSE \/ /\ files_written' = files_written \cup {Head(pending)}
               /\ pending' = Tail(pending)
               /\ UNCHANGED <<pc, ended, reported, exit_code, key_few,
                              key_dotfew, restarted, reported_of, pass_raised,
                              pass_class,
                         log_failed>>
            \/ /\ \E c \in FileExcClasses : Handle("write", c)
               /\ UNCHANGED <<pending, files_written>>
    /\ UNCHANGED <<api_key, prompted, retry_count, response_text, result,
                   parse_err_of, log, gen_calls, passes, pass_all_malformed,
                   reported_error>>
    /\ UNCHANGED notInterp

Next ==
    \/ GetApiKey
    \/ LogPrompt
    \/ Generate
    \/ LogResponse
    \/ Parse
    \/ LogFixPrompt
    \/ GenerateFix
    \/ LogFixResponse
    \/ Materialize

----------------------------------------------------------------------------
(* PARSE on the three framings of one payload *)

Unset == [ok |-> FALSE, value |-> <<"unset">>]

RECURSIVE SeqsUpTo(_, _)
SeqsUpTo(S, n) ==
    IF n = 0 THEN {<<>>}
    ELSE LET shorter == SeqsUpTo(S, n - 1)
         IN shorter \cup {Append(s, x) : s \in shorter, x \in S}

IdleParse ==
    /\ payload = <<>>
    /\ res_json_fence = Unset
    /\ res_fence = Unset
    /\ res_bare = Unset

IdleInterp ==
    /\ pc = "idle"
    /\ key_few = NoKey
    /\ key_dotfew = NoKey
    /\ api_key = NoKey
    /\ prompted = 0
    /\ retry_count = 0
    /\ response_text = <<>>
    /\ result = <<>>
    /\ parse_err_of = 0
    /\ pending = <<>>
    /\ files_written = {}
    /\ log = <<>>
    /\ gen_calls = 0
    /\ passes = 0
    /\ pass_raised = "none"
    /\ pass_class = "none"
    /\ log_failed = FALSE
    /\ pass_all_malformed = TRUE
    /\ restarted = FALSE
    /\ ended = "none"
    /\ reported = "none"
    /\ reported_of = 0
    /\ reported_error = <<>>
    /\ exit_code = -1

InitParse ==
    /\ payload \in SeqsUpTo(ContentTokens, MaxBodyLen)
    /\ res_json_fence = Unset
    /\ res_fence = Unset
    /\ res_bare = Unset

ParseJsonFenced ==
    /\ res_json_fence = Unset
    /\ res_json_fence' = ParseResponse(AsJsonFence(JsonText(payload)))
    /\ UNCHANGED <<payload, res_fence, res_bare>>
    /\ UNCHANGED notParse

ParseFenced ==
    /\ res_fence = Unset
    /\ res_fence' = ParseResponse(AsFence(JsonText(payload)))
    /\ UNCHANGED <<payload, res_json_fence, res_bare>>
    /\ UNCHANGED notParse

ParseBare ==
    /\ res_bare = Unset
    /\ res_bare' = ParseResponse(AsBare(JsonText(payload)))
    /\ UNCHANGED <<payload, res_json_fence, res_fence>>
    /\ UNCHANGED notParse

NextParse ==
    \/ ParseJsonFenced
    \/ ParseFenced
    \/ ParseBare

----------------------------------------------------------------------------
(* Files, and the text of README.md and .gitignore *)

NoFile == [exists |-> FALSE, text |-> <<>>]
File(text) == [exists |-> TRUE, text |-> text]

\* README_COMMENT, line 22: the notice ("M") and a newline
README_COMMENT == <<"M", "nl">>
\* GITIGNORE_ENTRIES, lines 23-26
GITIGNORE_ENTRIES == <<".few/", "few.litany.yaml">>

StartsWith(s, prefix) ==
    Len(s) >= Len(prefix) /\ SubSeq(s, 1, Len(prefix)) = prefix

\* line 166: content.lstrip().startswith(README_COMMENT.strip())
HasComment(content) == StartsWith(LStrip(content), Strip(README_COMMENT))

\* the lines a text file is read as (for line in f)
RECURSIVE Lines(_)
Lines(s) ==
    LET at == Find(s, "nl", 1)
    IN IF at = 0 THEN (IF s = <<>> THEN {} ELSE {s})
       ELSE {SubSeq(s, 1, at)} \cup Lines(SubSeq(s, at + 1, Len(s)))

\* lines 103-107: existing_entries
ExistingEntries(g) ==
    IF g.exists THEN {Strip(l) : l \in Lines(g.text)} ELSE {}

\* lines 110-113: what one entry adds to the file
EntryAppended_Always(g, entry) == <<"nl", entry>>
EntryAppended(g, entry) ==
    IF <<entry>> \in ExistingEntries(g) THEN <<>> ELSE <<"nl", entry>>

\* update_gitignore, lines 100-113: open(..., "a") creates the file
UpdateGitignore(g) ==
    File(g.text \o EntryAppended(g, GITIGNORE_ENTRIES[1])
                \o EntryAppended(g, GITIGNORE_ENTRIES[2]))

----------------------------------------------------------------------------
(* The manifest few.litany.yaml *)

\* What the file holds: no file ("absent"), text that is no YAML
\* ("corrupt"), nothing or a document that loads as None ("blank"), a
\* mapping without words or with words: null ("nowords"), a top-level
\* sequence ("list"), or a mapping with a words list ("dict").
Manifest(words) == [kind |-> "dict", words |-> words]
Litany(kind) == [kind |-> kind, words |-> <<>>]

\* lines 292-305: the data add_package_to_litany works on; a top-level
\* sequence makes data["words"] = [] raise TypeError, which is not caught
AddRaises_YamlErrorToo(l) == l.kind \in {"list", "corrupt"}
AddRaises(l) == l.kind = "list"
LoadedWords(l) == IF l.kind = "dict" THEN l.words ELSE <<>>

\* add_package_to_litany, lines 290-313 (for a manifest it does not raise on)
AddPackageToLitany_AlwaysAppends(l, package_name) ==
    Manifest(Append(LoadedWords(l), package_name))
AddPackageToLitany(l, package_name) ==
    IF package_name \in Range(LoadedWords(l)) THEN l
    ELSE Manifest(Append(LoadedWords(l), package_name))

\* handle_litany, lines 616-629: "exit" (sys.exit(1)), "empty" (the early
\* return) or "packages"
LitanyLoad(l) ==
    IF l.kind \in {"absent", "corrupt"} THEN "exit"
    ELSE IF l.kind = "dict" /\ l.words # <<>> THEN "packages"
    ELSE "empty"

----------------------------------------------------------------------------
(* Package references: get_repo_url_and_name, lines 83-98 *)

\* DEFAULT_USER, line 20
DEFAULT_USER == "peterbaileyct"

\* the tokens that start with a dot
Extensions == {".git"}

\* the tokens of s after the last tok (all of s when there is none)
AfterLast_Whole(s, tok) == s
AfterLast(s, tok) == SubSeq(s, RFind(s, tok) + 1, Len(s))

\* the tokens that hold a slash
SlashTokens == {"/", "://"}

\* what urlparse takes for a scheme: the text before the first colon when
\* it starts with a letter and holds scheme characters only
ValidScheme(prefix) ==
    /\ prefix # <<>>
    /\ prefix[1] \notin Extensions
    /\ \A i \in 1..Len(prefix) : prefix[i] \notin SlashTokens

\* urlparse(url).path for a url that holds "://": after a scheme the netloc
\* runs up to the next slash and the path starts there (empty when there is
\* none; inside a second "://" when that comes first); without a scheme
\* the whole text is the path
UrlPath(url) ==
    LET sep == Find(url, "://", 1)
        later == {i \in (sep + 1)..Len(url) : url[i] \in SlashTokens}
    IN IF ~ValidScheme(SubSeq(url, 1, sep - 1)) THEN url
       ELSE IF later = {} THEN <<>>
       ELSE SubSeq(url, CHOOSE i \in later : \A j \in later : i <= j,
                   Len(url))

\* os.path.basename: what follows the last slash
Basename(path) ==
    LET at == {i \in 1..Len(path) : path[i] \in SlashTokens}
    IN IF at = {} THEN path
       ELSE SubSeq(path, (CHOOSE i \in at : \A j \in at : j <= i) + 1,
                   Len(path))

\* os.path.splitext(...)[0]: the text before the last dot, unless that dot
\* leads the name
SplitExt(b) ==
    LET dots == {i \in 1..Len(b) : b[i] \in Extensions}
        last == CHOOSE i \in dots : \A j \in dots : j <= i
    IN IF dots = {} \/ last = 1 THEN b ELSE SubSeq(b, 1, last - 1)

get_repo_url_and_name(package_arg) ==
    IF "://" \in Range(package_arg)
    THEN [url |-> package_arg,
          name |-> SplitExt(Basename(UrlPath(package_arg)))]
    ELSE IF "/" \in Range(package_arg)
    THEN [url |-> <<"https", "://", "github.com", "/">> \o package_arg
                  \o <<".git">>,
          name |-> AfterLast(package_arg, "/")]
    ELSE [url |-> <<"https", "://", "github.com", "/", DEFAULT_USER, "/">>
                  \o package_arg \o <<".git">>,
          name |-> package_arg]

\* the references given to listen: a bare name, owner/name, a URL, and an
\* owner/ reference that ends in the path separator
PackageRefs ==
    {<<"alpha">>,
     <<"own", "/", "beta">>,
     <<"https", "://", "host", "/", "own", "/", "alpha", ".git">>,
     <<"own", "/">>}

\* the canonical names that have a directory of their own
WordNames == {get_repo_url_and_name(r).name : r \in PackageRefs} \ {<<>>}

----------------------------------------------------------------------------
(* One reference: what listen addresses, and what litany addresses when   *)
(* it replays the entry that listen recorded                               *)

\* the tokens a reference is made of: a scheme, the two separators, a word
\* and an extension
RefTokens == {"https", "://", "/", "alpha", ".git"}

FEW_WORDS_DIR == <<"~/few", "/", "words">>
ProjectWordsDir == <<".few", "/", "words">>

\* os.path.join(dir, name) for a name that does not start with a slash
PathJoin(dir, name) == dir \o <<"/">> \o name

\* nothing addressed: handle_listen has not been called
NoPaths == [called |-> FALSE, reached |-> FALSE, url |-> <<>>, name |-> <<>>,
            local_repo_path |-> <<>>, project_word_path |-> <<>>]

\* lines 582-594 of handle_listen: no package, no addressing; otherwise
\* the address to clone from, the canonical name and the two directories
ListenPaths(package) ==
    IF package = <<>> THEN [NoPaths EXCEPT !.called = TRUE]
    ELSE LET r == get_repo_url_and_name(package)
         IN [called |-> TRUE, reached |-> TRUE, url |-> r.url,
             name |-> r.name,
             local_repo_path |-> PathJoin(FEW_WORDS_DIR, r.name),
             project_word_path |-> PathJoin(ProjectWordsDir, r.name)]

IdleResolve ==
    /\ listen_arg = <<>>
    /\ listen_paths = NoPaths
    /\ litany_paths = NoPaths

InitResolve ==
    /\ listen_arg \in SeqsUpTo(RefTokens, MaxRefLen) \ {<<>>}
    /\ listen_paths = NoPaths
    /\ litany_paths = NoPaths

\* few listen <reference>: resolves it, records the name in the manifest
\* and addresses the two directories
ListenOnce ==
    /\ ~listen_paths.called
    /\ listen_paths' = ListenPaths(listen_arg)
    /\ UNCHANGED <<listen_arg, litany_paths>>
    /\ UNCHANGED notResolve

\* few litany afterwards: handle_listen with package = the recorded name;
\* an empty recorded name makes that call return at line 583
LitanyReplay ==
    /\ listen_paths.called
    /\ ~litany_paths.called
    /\ litany_paths' = ListenPaths(listen_paths.name)
    /\ UNCHANGED <<listen_arg, listen_paths>>
    /\ UNCHANGED notResolve

NextResolve == ListenOnce \/ LitanyReplay

----------------------------------------------------------------------------
(* Directories of the cache and of the project *)

NoEntry == [exists |-> FALSE, files |-> {}]
Entry(files) == [exists |-> TRUE, files |-> files]

\* what a checkout holds besides the work tree
GitDir == {<<".git", "HEAD">>}
\* work trees a remote may hold (paths as sequences of components)
WorkTrees ==
    {{<<"a.md">>, <<".gitignore">>},
     {<<"b.md">>, <<"sub", ".git">>}}

\* shutil.ignore_patterns('.git'), line 607: a name .git is skipped in
\* every directory copytree walks
StripVCS_TopOnly(files) == {f \in files : f[1] # ".git"}
StripVCS(files) == {f \in files : \A i \in 1..Len(f) : f[i] # ".git"}

\* the files under ~/few/words/<name> resp. .few/words/<name>, as
\* <<name, path>>; the empty name is the words directory itself
TreeOf(dirs, name) ==
    UNION {{<<n, f>> : f \in dirs[n].files} :
           n \in (IF name = <<>> THEN WordNames ELSE {name})}

----------------------------------------------------------------------------
(* The bootstrapper: initialize_few_project, lines 123-261 *)

\* the five artifacts of the project
Proj ==
    [parseme |-> parseme, readme |-> readme, words_dir |-> words_dir,
     litany |-> litany, gitignore |-> gitignore]

\* What the fetch of PARSEME.md may meet: the clone succeeds and holds the
\* file ("ok"), succeeds without the file ("no_parseme"), succeeds but
\* shutil.copy2 raises ("copy_error"), or git clone fails ("failed").
CloneOutcomes == {"ok", "no_parseme", "copy_error", "failed"}


\* run_command, lines 71-80: a failed command ends in sys.exit(1); the
\* SystemExit is no Exception, so the except of line 150 lets it through
CloneExits(outcome) == outcome = "failed"

\* lines 143-153: the PARSEME.md written when the fetch does not exit
FetchedParseme(outcome) == IF outcome = "ok" THEN "fetched" ELSE "default"

\* line 251: the hosting step sets initialized_now
FirebaseChanged(fb) == fb

\* initialize_few_project for project P, with firebase available or not;
\* env is what this run meets: the outcome of the clone (env.clone), whether
\* README.md can be read and rewritten (env.readme_ok), and whether the
\* firebase commands succeed (env.firebase_ok)
InitializeFewProject(P, fb, env) ==
    LET fetch == P.parseme = "absent"
        comment == /\ P.readme.exists
                   /\ env.readme_ok
                   /\ ~HasComment(P.readme.text)
        mkwords == ~P.words_dir
        mklitany == P.litany.kind = "absent"
        after ==
            [parseme |-> IF fetch THEN FetchedParseme(env.clone)
                         ELSE P.parseme,
             readme |-> IF comment THEN File(README_COMMENT \o P.readme.text)
                        ELSE P.readme,
             words_dir |-> TRUE,
             litany |-> IF mklitany THEN Manifest(<<>>) ELSE P.litany,
             gitignore |-> UpdateGitignore(P.gitignore)]
    IN IF fetch /\ CloneExits(env.clone)
       THEN [proj |-> P, returned |-> FALSE, changed |-> TRUE,
             clone |-> env.clone]
       ELSE [proj |-> after,
             returned |-> ~(fb /\ ~env.firebase_ok),
             changed |-> fetch \/ comment \/ mkwords \/ mklitany
                         \/ FirebaseChanged(fb),
             clone |-> IF fetch THEN env.clone ELSE "none"]

----------------------------------------------------------------------------
(* The synchronizer: handle_listen, lines 576-608 *)

\* lines 596-601: the cache after a successful pull or clone; for the empty
\* name local_repo_path is ~/few/words itself, which exists (line 592), and
\* git pull runs there
Fetched(name, tree) ==
    IF name = <<>> THEN cache
    ELSE [cache EXCEPT ![name] = Entry(tree \cup GitDir)]

\* lines 604-607 when copytree succeeds: rmtree, then the copy without .git
Copied(name, c) ==
    IF name = <<>>
    THEN [n \in WordNames |->
            IF c[n].exists THEN Entry(StripVCS(c[n].files)) ELSE NoEntry]
    ELSE [project_words EXCEPT ![name] = Entry(StripVCS(c[name].files))]

\* lines 604-607: what rmtree and copytree may leave. copytree raises
\* before it made the directory, or after it copied only some of the files
CopyOutcomes(name, c) ==
    LET full == Copied(name, c)
    IN {[ok |-> TRUE, words |-> full, dir |-> TRUE]}
       \cup (IF name = <<>>
             THEN {[ok |-> FALSE, dir |-> d,
                    words |-> [n \in WordNames |->
                                 IF n \in K THEN full[n] ELSE NoEntry]] :
                   K \in (SUBSET WordNames) \ {WordNames}, d \in BOOLEAN}
             ELSE {[ok |-> FALSE, dir |-> TRUE,
                    words |-> [project_words EXCEPT ![name] = NoEntry]]}
                  \cup {[ok |-> FALSE, dir |-> TRUE,
                         words |-> [project_words EXCEPT ![name] = Entry(S)]] :
                        S \in (SUBSET full[name].files) \ {full[name].files}})

\* check_git, lines 31-35: without git on the PATH the process ends
CheckGitExits_Never(installed) == FALSE
CheckGitExits(installed) == ~installed

\* run_command, lines 71-80, for git pull and git clone (lines 598, 601):
\* a command that did not succeed ends the process
RunCommandExits_Never(ok) == FALSE
RunCommandExits(ok) == ~ok

\* handle_listen(args) with args.package = package_arg (<<>> for none) and
\* args.from_litany = from_litany; a call that does not return ends the
\* process with status 1. What the call meets is drawn only where the
\* code consults it: the clone of line 141 when PARSEME.md is absent,
\* README.md when it has to be rewritten, the firebase commands when
\* firebase is installed, git pull / clone and the work tree it leaves when
\* line 596 is reached, and the copy when line 607 is reached.
HandleListen(package_arg, from_litany) ==
    \E clone \in (IF git_installed /\ parseme = "absent"
                  THEN CloneOutcomes ELSE {"none"}),
       readme_ok \in (IF git_installed /\ readme.exists
                         /\ ~HasComment(readme.text)
                      THEN BOOLEAN ELSE {TRUE}),
       firebase_ok \in (IF git_installed /\ firebase_available
                        THEN BOOLEAN ELSE {TRUE}) :
      \E b \in {InitializeFewProject(Proj, firebase_available,
                    [clone |-> clone, readme_ok |-> readme_ok,
                     firebase_ok |-> firebase_ok])},
         name \in {get_repo_url_and_name(package_arg).name} :
      LET has_pkg == package_arg # <<>>
          add == ~from_litany
          add_raises == add /\ AddRaises(b.proj.litany)
          fetches == git_installed /\ b.returned /\ has_pkg /\ ~add_raises
      IN \E vcs_ok \in (IF fetches THEN BOOLEAN ELSE {TRUE}),
            tree \in (IF fetches THEN WorkTrees ELSE {{}}) :
          LET reached ==
                  IF CheckGitExits(git_installed) THEN "check_git"
                  ELSE IF ~b.returned THEN "bootstrap"
                  ELSE IF ~has_pkg THEN "init_only"
                  ELSE IF add_raises THEN "add"
                  ELSE IF RunCommandExits(vcs_ok) THEN "fetch"
                  ELSE "copy"
              booted == ~CheckGitExits(git_installed)
              synced == reached = "copy"
          IN \E cache1 \in {IF synced THEN Fetched(name, tree) ELSE cache} :
             \E co \in (IF synced THEN CopyOutcomes(name, cache1)
                        ELSE {[ok |-> FALSE, words |-> project_words,
                               dir |-> TRUE]}) :
              /\ parseme' = IF booted THEN b.proj.parseme ELSE parseme
              /\ readme' = IF booted THEN b.proj.readme ELSE readme
              /\ gitignore' = IF booted THEN b.proj.gitignore ELSE gitignore
              /\ litany' = IF reached \in {"fetch", "copy"} /\ add
                           THEN AddPackageToLitany(b.proj.litany, name)
                           ELSE IF booted THEN b.proj.litany
                           ELSE litany
              /\ words_dir' = IF synced THEN co.dir
                              ELSE IF booted THEN b.proj.words_dir
                              ELSE words_dir
              /\ cache' = cache1
              /\ project_words' = co.words
              /\ last_boot' =
                    IF booted
                    THEN [ran |-> TRUE, returned |-> b.returned,
                          changed |-> b.changed, clone |-> b.clone,
                          again |-> (last_cmd.op = "init" /\ exit_code = 0),
                          same |-> (b.proj = Proj),
                          readme_failed |-> ~readme_ok,
                          prev_failed |-> last_boot.readme_failed]
                    ELSE [last_boot EXCEPT !.ran = FALSE]
              /\ last_listen' =
                    [called |-> TRUE, has_pkg |-> has_pkg, name |-> name,
                     from_litany |-> from_litany, reached |-> reached,
                     pre_kind |-> b.proj.litany.kind,
                     git_failed |-> (fetches /\ ~vcs_ok),
                     returned |->
                         (reached = "init_only" \/ (synced /\ co.ok))]

NoBoot ==
    [ran |-> FALSE, returned |-> FALSE, changed |-> FALSE, clone |-> "none",
     again |-> FALSE, same |-> FALSE, readme_failed |-> FALSE,
     prev_failed |-> FALSE]
NoListen ==
    [called |-> FALSE, has_pkg |-> FALSE, name |-> <<>>,
     from_litany |-> FALSE, reached |-> "none", pre_kind |-> "none",
     git_failed |-> FALSE,
     returned |-> FALSE]
Cmd(op, load, pre_kind) == [op |-> op, load |-> load, pre_kind |-> pre_kind]

\* the command few listen, without a package (lines 582-583)
ListenInit ==
    /\ ~lit_active
    /\ cmds < MaxCmds
    /\ HandleListen(<<>>, FALSE)
    /\ exit_code' = IF last_listen'.returned THEN 0 ELSE 1
    /\ last_cmd' = Cmd("init", "none", litany.kind)
    /\ cmds' = cmds + 1
    /\ UNCHANGED <<git_installed, firebase_available, lit_active, lit_queue>>
    /\ UNCHANGED notSync

\* the command few listen <package> [--from-litany]
ListenPackage ==
    /\ ~lit_active
    /\ cmds < MaxCmds
    /\ \E ref \in PackageRefs, from_litany \in BOOLEAN :
          HandleListen(ref, from_litany)
    /\ exit_code' = IF last_listen'.returned THEN 0 ELSE 1
    /\ last_cmd' = Cmd("listen", "none", litany.kind)
    /\ cmds' = cmds + 1
    /\ UNCHANGED <<git_installed, firebase_available, lit_active, lit_queue>>
    /\ UNCHANGED notSync

----------------------------------------------------------------------------
(* The bulk operation: handle_litany, lines 611-639 *)

\* lines 613-632: up to the for loop
LitanyStart ==
    /\ ~lit_active
    /\ cmds < MaxCmds
    /\ LET load == IF CheckGitExits(git_installed) THEN "no_git"
                   ELSE LitanyLoad(litany)
       IN /\ last_cmd' = Cmd("litany", load, litany.kind)
          /\ lit_active' = (load = "packages")
          /\ lit_queue' = IF load = "packages" THEN litany.words ELSE <<>>
          /\ exit_code' = IF load = "packages" THEN -1
                          ELSE IF load = "empty" THEN 0
                          ELSE 1
    /\ cmds' = cmds + 1
    /\ UNCHANGED <<git_installed, firebase_available, parseme, readme,
                   words_dir, litany, gitignore, cache, project_words,
                   last_boot, last_listen>>
    /\ UNCHANGED notSync

\* line 634: the package the for loop takes next
NextPackage_Last(queue) == queue[Len(queue)]
NextPackage(queue) == Head(queue)

\* lines 634-639: one iteration of for package in packages
LitanyStep ==
    /\ lit_active
    /\ HandleListen(NextPackage(lit_queue), TRUE)
    /\ lit_queue' = Tail(lit_queue)
    /\ lit_active' = (last_listen'.returned /\ Tail(lit_queue) # <<>>)
    /\ exit_code' = IF ~last_listen'.returned THEN 1
                    ELSE IF Tail(lit_queue) # <<>> THEN -1
                    ELSE 0
    /\ UNCHANGED <<git_installed, firebase_available, cmds, last_cmd>>
    /\ UNCHANGED notSync

\* manifests a project may hold before its first listen on this machine
StartLitanies ==
    {Litany("absent"), Litany("corrupt"), Litany("list"), Litany("blank"),
     Manifest(<<<<"alpha">>, <<"beta">>>>)}

\* a project before its first listen on this machine
InitSync ==
    /\ git_installed \in BOOLEAN
    /\ firebase_available \in BOOLEAN
    /\ parseme = "absent"
    /\ readme = File(<<"x">>)
    /\ words_dir = FALSE
    /\ litany \in StartLitanies
    /\ gitignore = NoFile
    /\ cache = [n \in WordNames |-> NoEntry]
    /\ project_words = [n \in WordNames |-> NoEntry]
    /\ lit_active = FALSE
    /\ lit_queue = <<>>
    /\ cmds = 0
    /\ last_cmd = Cmd("none", "none", "none")
    /\ last_boot = NoBoot
    /\ last_listen = NoListen

\* README.md and .gitignore files a project may hold before bootstrap
ReadmeTexts ==
    {<<>>, <<"x">>, <<"M", "nl", "x">>, <<"sp", "M", "x">>, <<"x", "M", "nl">>}
GitignoreTexts ==
    {<<>>, <<"x", "nl">>, <<".few/">>, <<"sp", ".few/", "sp", "nl", "x">>,
     <<"x", ".few/", "nl", "few.litany.yaml", "nl">>,
     <<"few.litany.yaml", "nl", ".few/", "nl">>}

\* any project, bootstrapped or not, on any machine
InitBoot ==
    /\ git_installed \in BOOLEAN
    /\ firebase_available \in BOOLEAN
    /\ parseme \in {"absent", "user"}
    /\ readme \in {NoFile} \cup {File(t) : t \in ReadmeTexts}
    /\ words_dir \in BOOLEAN
    /\ litany \in {Litany("absent"), Litany("corrupt"), Manifest(<<>>)}
    /\ gitignore \in {NoFile} \cup {File(t) : t \in GitignoreTexts}
    /\ cache = [n \in WordNames |-> NoEntry]
    /\ project_words = [n \in WordNames |-> NoEntry]
    /\ lit_active = FALSE
    /\ lit_queue = <<>>
    /\ cmds = 0
    /\ last_cmd = Cmd("none", "none", "none")
    /\ last_boot = NoBoot
    /\ last_listen = NoListen

\* no listen or litany command is part of the run
IdleSync ==
    /\ git_installed = TRUE
    /\ firebase_available = FALSE
    /\ parseme = "absent"
    /\ readme = NoFile
    /\ words_dir = FALSE
    /\ litany = Litany("absent")
    /\ gitignore = NoFile
    /\ cache = [n \in WordNames |-> NoEntry]
    /\ project_words = [n \in WordNames |-> NoEntry]
    /\ lit_active = FALSE
    /\ lit_queue = <<>>
    /\ cmds = 0
    /\ last_cmd = Cmd("none", "none", "none")
    /\ last_boot = NoBoot
    /\ last_listen = NoListen

NextSync ==
    \/ ListenInit
    \/ ListenPackage
    \/ LitanyStart
    \/ LitanyStep

----------------------------------------------------------------------------
(* The prompt command: handle_prompt, lines 641-658 *)

\* the files read_project_files looks at: what rglob("*.few.md") finds, and
\* PARSEME.md
SourcePaths == {"a.few.md", "sub/b.few.md", "PARSEME.md"}
\* a file is not there, can be read, or raises PermissionError or
\* UnicodeDecodeError when read
SourceStates == {"absent", "readable", "unreadable"}

\* read_project_files, lines 336-368: the files whose content it returns
ReadProjectFiles(src) == {f \in SourcePaths : src[f] = "readable"}

\* generate_few_prompt, lines 370-396: the files whose text the prompt holds
GenerateFewPrompt(src) == [prompt |-> ReadProjectFiles(src)]

\* no prompt command is part of the run
IdlePrompt ==
    /\ sources = [f \in SourcePaths |-> "absent"]
    /\ prompt_pc = "idle"
    /\ printed = <<>>

\* lines 643-652: gather, and the list of what was found
PromptGather ==
    /\ prompt_pc = "gather"
    /\ LET files_content == ReadProjectFiles(sources)
       IN IF files_content = {}
          THEN /\ printed' = <<"none">>
               /\ prompt_pc' = "returned"
               /\ exit_code' = 0
          ELSE /\ printed' = <<[found |-> files_content]>>
               /\ prompt_pc' = "prompt"
               /\ UNCHANGED exit_code
    /\ UNCHANGED sources
    /\ UNCHANGED notPrompt

\* lines 654-658 as interpret_project would do them: the prompt is logged
PromptShow_Logged ==
    /\ prompt_pc = "prompt"
    /\ printed' = Append(printed, GenerateFewPrompt(sources))
    /\ prompt_pc' = "returned"
    /\ exit_code' = 0
    /\ log' = Append(log, "PROMPT")
    /\ UNCHANGED <<pc, key_few, key_dotfew, api_key, prompted, retry_count,
                   response_text, result, parse_err_of, pending,
                   files_written, gen_calls, passes, pass_raised, pass_class,
                   log_failed,
                   pass_all_malformed, restarted, ended, reported,
                   reported_of, reported_error>>
    /\ UNCHANGED <<sources, parseVars, syncVars, resolveVars>>

\* lines 654-658: the prompt is built and printed
PromptShow ==
    /\ prompt_pc = "prompt"
    /\ printed' = Append(printed, GenerateFewPrompt(sources))
    /\ prompt_pc' = "returned"
    /\ exit_code' = 0
    /\ UNCHANGED sources
    /\ UNCHANGED notPrompt

NextPrompt ==
    \/ PromptGather
    \/ PromptShow

\* a project, a machine with or without key files and log, and the prompt
\* command started in it
InitPrompt ==
    /\ sources \in [SourcePaths -> SourceStates]
    /\ prompt_pc = "gather"
    /\ printed = <<>>
    /\ pc = "idle"
    /\ key_few \in {NoKey, "k1"}
    /\ key_dotfew \in {NoKey, "k1"}
    /\ api_key = NoKey
    /\ prompted = 0
    /\ retry_count = 0
    /\ response_text = <<>>
    /\ result = <<>>
    /\ parse_err_of = 0
    /\ pending = <<>>
    /\ files_written = {}
    /\ log \in {<<>>, <<"PROMPT", "RESPONSE">>}
    /\ gen_calls = 0
    /\ passes = 0
    /\ pass_raised = "none"
    /\ pass_class = "none"
    /\ log_failed = FALSE
    /\ pass_all_malformed = TRUE
    /\ restarted = FALSE
    /\ ended = "none"
    /\ reported = "none"
    /\ reported_of = 0
    /\ reported_error = <<>>
    /\ exit_code = -1
    /\ IdleParse
    /\ IdleResolve
    /\ git_installed = TRUE
    /\ firebase_available = FALSE
    /\ parseme = IF sources["PARSEME.md"] = "absent" THEN "absent" ELSE "user"
    /\ readme = NoFile
    /\ words_dir = FALSE
    /\ litany = Litany("absent")
    /\ gitignore = NoFile
    /\ cache = [n \in WordNames |-> NoEntry]
    /\ project_words = [n \in WordNames |-> NoEntry]
    /\ lit_active = FALSE
    /\ lit_queue = <<>>
    /\ cmds = 0
    /\ last_cmd = Cmd("none", "none", "none")
    /\ last_boot = NoBoot
    /\ last_listen = NoListen

----------------------------------------------------------------------------
(* Claims about the interpretation pipeline (specification Spec) *)

\* C1: in a pass in which no generation call raises and every response is
\* unparseable, exactly 3 generation calls are made, the pipeline ends by
\* exhausting the repair budget, reporting the parse error of the last
\* response, and no project file is written.
C1_ExactlyThreeAttempts ==
    (/\ pc = "returned"
     /\ gen_calls >= 1
     /\ pass_raised # "generate"
     /\ pass_all_malformed)
    => (/\ gen_calls = 3
        /\ ended = "exhausted"
        /\ reported = "parse_error"
        /\ reported_of = gen_calls
        /\ (passes = 1 => files_written = {}))

\* The same statement for passes in which nothing at all raises (no
\* generation call, no log write): the repair loop itself keeps the bound.
RepairLoopBound ==
    (/\ pc = "returned"
     /\ gen_calls >= 1
     /\ pass_raised = "none"
     /\ pass_all_malformed)
    => (/\ gen_calls = 3
        /\ ended = "exhausted"
        /\ reported = "parse_error"
        /\ reported_of = gen_calls
        /\ (passes = 1 => files_written = {}))

\* C2: when a generation call failed with an authentication signal, the
\* key file get_api_key reads is gone when the pipeline restarts, so the
\* restarted pass has to ask the operator for a key.
C2_RejectedKeyDiscarded ==
    (pc = "acquire" /\ restarted /\ pass_raised = "generate")
    => key_few = NoKey

\* where interpret_project is about to write a log record, and where a
\* successful write leaves it
LogPositions ==
    {"log_prompt", "log_response", "log_fix_prompt", "log_fix_response"}
AfterLog(at) ==
    IF at = "log_prompt" THEN "generate"
    ELSE IF at = "log_fix_prompt" THEN "generate_fix"
    ELSE "parse"

\* a step from a log position leads where a successful write leads, with
\* the outcome, the key files and the project files untouched
LogStepProceeds ==
    pc \in LogPositions
    => (/\ pc' = AfterLog(pc)
        /\ UNCHANGED <<ended, exit_code, files_written, key_few, key_dotfew,
                       gen_calls>>)

\* C3: a log write, failed or not, never aborts or alters the pipeline:
\* every step taken from a log position is the step a successful write
\* takes.
C3_LogFailureHarmless == [][LogStepProceeds]_vars

\* C9: whenever the pipeline ends other than by materializing the files, a
\* message was printed and the process exits with a non-zero status.
C9_FailureExitsNonZero ==
    (pc = "returned" /\ ended # "materialized")
    => (reported \notin {"none", "completed"} /\ exit_code # 0)

----------------------------------------------------------------------------
(* Claims about PARSE (specification SpecParse) *)

\* C8: the json-fenced, the fenced and the bare framing of one JSON payload
\* all parse, and to the same structure (the payload), whatever the payload
\* holds, a triple backtick inside a string value included.
C8_FramingsAgree ==
    (res_json_fence # Unset /\ res_fence # Unset /\ res_bare # Unset)
    => (/\ res_json_fence = [ok |-> TRUE, value |-> payload]
        /\ res_fence = res_json_fence
        /\ res_bare = res_json_fence)

\* The part of C8 the code keeps: payloads without a triple backtick parse
\* to the same structure in all three framings.
FramingsAgreeWithoutBackticks ==
    (/\ "BT3" \notin Range(payload)
     /\ res_json_fence # Unset /\ res_fence # Unset /\ res_bare # Unset)
    => (/\ res_json_fence = [ok |-> TRUE, value |-> payload]
        /\ res_fence = res_json_fence
        /\ res_bare = res_json_fence)

----------------------------------------------------------------------------
(* Claims about listen and litany (specification SpecSync) *)

\* a path that ignore_patterns('.git') is meant to leave out
IsVCSMetadata(path) == \E i \in 1..Len(path) : path[i] = ".git"

\* the last handle_listen call got past the bootstrap with a package
ListenResolved ==
    /\ last_listen.called
    /\ last_listen.has_pkg
    /\ last_listen.reached \notin {"check_git", "bootstrap"}

\* C4: after handle_listen for package p returned, .few/words/p holds
\* exactly the files of ~/few/words/p that are no version-control
\* metadata, and the manifest holds p unless the call was made with
\* from_litany.
C4_SyncMirrorsCache ==
    (ListenResolved /\ last_listen.returned)
    => LET p == last_listen.name
       IN /\ TreeOf(project_words, p)
               = {t \in TreeOf(cache, p) : ~IsVCSMetadata(t[2])}
          /\ \A n \in (IF p = <<>> THEN WordNames ELSE {p}) :
                project_words[n].exists = cache[n].exists
          /\ p # <<>> => project_words[p].exists
          /\ ~last_listen.from_litany
                => (litany.kind = "dict" /\ p \in Range(litany.words))

\* a listen of alpha returned as the second command, with a nested .git in
\* the cache entry
C4_Witness ==
    /\ ListenResolved
    /\ last_listen.returned
    /\ cmds = 2
    /\ last_listen.name = <<"alpha">>
    /\ <<"sub", ".git">> \in cache[<<"alpha">>].files
    /\ ~last_listen.from_litany

C10_EmptyNameRejected ==
    (ListenResolved /\ last_listen.name = <<>>)
    => (/\ ~last_listen.returned
        /\ last_listen.reached \notin {"add", "fetch", "copy"}
        /\ (litany.kind = "dict" => <<>> \notin Range(litany.words)))

----------------------------------------------------------------------------
(* Claims about the bootstrapper (specification SpecBoot) *)

\* the last bootstrap ran right after a bootstrap-only listen that
\* returned, and returned itself
SecondBootstrap ==
    last_boot.ran /\ last_boot.again /\ last_boot.returned

C7_FetchFailureFallsBack ==
    (last_boot.ran /\ last_boot.clone = "failed")
    => (/\ parseme = "default"
        /\ words_dir
        /\ litany.kind # "absent"
        /\ gitignore.exists)

----------------------------------------------------------------------------
(* Claims about failures and refusals of the pipeline (specification Spec) *)

\* C11: a failure that is no quota and no authentication signal of the
\* generation service, a failed file write of MATERIALIZE or of the log in
\* particular, ends the pipeline: it is not restarted and no further
\* generation call is made.
C11_OtherFailureAborts ==
    pass_raised \in {"write", "log"} => (pc = "returned" /\ ended = "other")

\* Parse is about to see an object whose success member is false
SeesRefusal ==
    /\ pc = "parse"
    /\ retry_count < max_retries
    /\ LET r == ParseResponse(response_text)
       IN r.ok /\ "sf" \in Range(r.value) /\ "st" \notin Range(r.value)

RefusalStops ==
    /\ SeesRefusal
          => /\ pc' = "returned"
             /\ ended' = "compile_failed"
             /\ files_written' = files_written
             /\ gen_calls' = gen_calls
             /\ reported_error' = ErrorOf(ParseResponse(response_text).value)
    /\ pc = "returned" => (gen_calls' = gen_calls
                           /\ files_written' = files_written)

\* C12: on a parsed response with success = false the pipeline writes no
\* file, prints the error member of the response as it is, and stops
\* without a further generation call.
C12_RefusalWritesNothing == [][RefusalStops]_vars

\* the pipeline ended on a refusal that carried an error and a file
C12_Witness ==
    /\ ended = "compile_failed"
    /\ reported_error = <<"e1">>
    /\ "f2" \in Range(result)
    /\ files_written = {}

\* C19: bootstrap returns changed = true whenever the run created or
\* modified one of the five artifacts, a run that only appends the missing
\* entries to .gitignore included.
C19_ChangedWhenAnyArtifactModified ==
    (last_boot.ran /\ last_boot.returned /\ ~last_boot.same)
    => last_boot.changed

----------------------------------------------------------------------------
(* Further claims about listen and litany (specification SpecSync) *)

NoDuplicates(words) ==
    \A i, j \in 1..Len(words) : words[i] = words[j] => i = j

\* this step is a listen command that got as far as add_package_to_litany
\* and did not raise there
ListenAdds ==
    /\ cmds' = cmds + 1
    /\ last_cmd'.op = "listen"
    /\ ~last_listen'.from_litany
    /\ last_listen'.reached \in {"fetch", "copy"}

\* a present name leaves the manifest as it is, a new one goes to the end
AddKeepsOrder ==
    (ListenAdds /\ litany.kind = "dict")
    => litany' = IF \E i \in 1..Len(litany.words) :
                        litany.words[i] = last_listen'.name
                 THEN litany
                 ELSE Manifest(litany.words \o <<last_listen'.name>>)

\* C13: a manifest without duplicates never gets one through listen; adding
\* a name that is present leaves contents and order as they were, and a new
\* name is appended after all entries.
C13_ManifestAddIdempotent ==
    /\ [](litany.kind = "dict" => NoDuplicates(litany.words))
    /\ [][AddKeepsOrder]_vars

\* alpha was listened to with alpha already first in the manifest
C13_Witness ==
    /\ cmds = 2
    /\ last_cmd.op = "listen"
    /\ ~last_listen.from_litany
    /\ last_listen.reached = "copy"
    /\ last_listen.name = <<"alpha">>
    /\ litany = Manifest(<<<<"alpha">>, <<"beta">>>>)

\* the package litany has just synchronized is the one that precedes the
\* packages still to come, in the order of the manifest
LitanyInOrder ==
    (/\ last_cmd.op = "litany"
     /\ last_cmd.load = "packages"
     /\ Len(lit_queue) < Len(litany.words))
    => LET k == Len(litany.words) - Len(lit_queue)
       IN /\ lit_queue = SubSeq(litany.words, k + 1, Len(litany.words))
          /\ last_listen.from_litany
          /\ last_listen.name = get_repo_url_and_name(litany.words[k]).name
          /\ lit_active => last_listen.returned

\* a step of litany: it takes the packages of the manifest, or it takes one
\* package off the front; the manifest stays as it is
LitanyStepwise ==
    /\ (cmds' = cmds + 1 /\ last_cmd'.op = "litany")
          => /\ litany' = litany
             /\ last_cmd'.load = "packages" => lit_queue' = litany.words
    /\ lit_active
          => /\ litany' = litany
             /\ lit_queue' = Tail(lit_queue)
             /\ last_listen'.from_litany
             /\ last_listen'.reached # "add"

\* C14: litany synchronizes the packages of the manifest one at a time in
\* the order of the manifest, each without the manifest-add step, and the
\* manifest is the same after litany as before it.
C14_LitanySequentialInOrder ==
    /\ []LitanyInOrder
    /\ [][LitanyStepwise]_vars

\* litany went through words: [alpha, beta] to the end
C14_Witness ==
    /\ last_cmd.op = "litany"
    /\ ~lit_active
    /\ lit_queue = <<>>
    /\ exit_code = 0
    /\ litany = Manifest(<<<<"alpha">>, <<"beta">>>>)
    /\ last_listen.name = <<"beta">>
    /\ last_listen.returned
    /\ project_words[<<"alpha">>].exists
    /\ project_words[<<"beta">>].exists

\* a step of litany in which git pull or git clone failed ends the run with
\* status 1 and leaves every ProjectWord as it was; after that only a new
\* command can follow
FetchFailureEndsLitany ==
    /\ (lit_active /\ last_listen'.git_failed)
          => /\ exit_code' = 1
             /\ ~lit_active'
             /\ ~last_listen'.returned
             /\ project_words' = project_words
    /\ (~lit_active /\ last_cmd.op = "litany")
          => (cmds' = cmds + 1 \/ UNCHANGED <<project_words, cache>>)

\* C15: during litany a failed fetch or refresh of one package ends the
\* whole run with a non-zero exit; no later package is fetched, refreshed or
\* copied, and the ProjectWords synchronized earlier in the run are kept.
C15_LitanyAbortsOnFetchFailure == [][FetchFailureEndsLitany]_vars

\* litany synchronized alpha and then failed to fetch beta
C15_Witness ==
    /\ last_cmd.op = "litany"
    /\ litany = Manifest(<<<<"alpha">>, <<"beta">>>>)
    /\ last_listen.from_litany
    /\ last_listen.git_failed
    /\ last_listen.name = <<"beta">>
    /\ project_words[<<"alpha">>].exists
    /\ ~project_words[<<"beta">>].exists
    /\ exit_code = 1

\* a listen or litany command on a machine without git ends with status 1
\* and leaves the project, the manifest and the cache as they were
NoGitTouchesNothing ==
    (~git_installed /\ cmds' = cmds + 1)
    => /\ exit_code' = 1
       /\ ~lit_active'
       /\ UNCHANGED <<parseme, readme, words_dir, gitignore, litany, cache,
                      project_words>>

\* C18: without the version-control client, listen and litany exit with a
\* non-zero status before any state is touched: no bootstrap artifact, no
\* manifest entry, no cache entry and no ProjectWord is created or changed.
C18_NoGitExitsUntouched ==
    /\ [][NoGitTouchesNothing]_vars
    /\ [](~git_installed => (/\ parseme = "absent"
                             /\ ~words_dir
                             /\ ~gitignore.exists
                             /\ \A n \in WordNames : ~cache[n].exists))

\* a listen and then a litany were run without git on a project whose
\* manifest lists two packages
C18_Witness ==
    /\ ~git_installed
    /\ cmds = 2
    /\ last_cmd.op = "litany"
    /\ last_listen.called
    /\ exit_code = 1
    /\ litany = Manifest(<<<<"alpha">>, <<"beta">>>>)

\* a listen whose git pull or git clone failed leaves every ProjectWord as
\* it was
FetchFailureKeepsWord ==
    (cmds' = cmds + 1 /\ last_cmd'.op = "listen" /\ last_listen'.git_failed)
    => project_words' = project_words

\* after a listen whose copy failed the ProjectWord of the package is absent
CopyFailureLeavesNoWord ==
    (/\ ListenResolved
     /\ last_listen.name # <<>>
     /\ last_listen.reached = "copy"
     /\ ~last_listen.returned)
    => ~project_words[last_listen.name].exists

\* C20: sync never leaves a partial ProjectWord: a failed fetch or refresh
\* leaves an existing ProjectWord as it was, and after a failed copy the
\* ProjectWord path is absent, never a partly copied directory.
C20_NoPartialProjectWord ==
    /\ [][FetchFailureKeepsWord]_vars
    /\ []CopyFailureLeavesNoWord

----------------------------------------------------------------------------
(* Claims about quota failures (specification Spec) *)

\* a generation call that raises with HTTP 429 ends the run at once: the
\* key files stay, no file is written, no generation call is counted
QuotaStops ==
    (pc \in {"generate", "generate_fix"} /\ pass_class' = "quota")
    => /\ pc' = "returned"
       /\ ended' = "quota"
       /\ reported' = "quota"
       /\ key_few' = key_few
       /\ key_dotfew' = key_dotfew
       /\ files_written' = files_written
       /\ gen_calls' = gen_calls
       /\ passes' = passes

\* C16: a generation call, initial or fix, that fails with a rate/quota
\* signal aborts the pipeline at once: no further generation call is made,
\* the credential is not discarded and no project file is written.
C16_QuotaAborts ==
    /\ [][QuotaStops]_vars
    /\ [](pass_class = "quota" => (pc = "returned" /\ ended = "quota"))

\* a fix call hit the quota in a pass entered with a cached key
C16_Witness ==
    /\ pass_class = "quota"
    /\ ended = "quota"
    /\ gen_calls = 1
    /\ retry_count = 1
    /\ key_few = "k1"
    /\ files_written = {}

----------------------------------------------------------------------------
(* Claims about the prompt command (specification SpecPrompt) *)

\* a step of the prompt command leaves the key files, the log, the project
\* tree, the cache and the manifest as they are, and calls no generation
PromptStepTouchesNothing ==
    prompt_pc \in {"gather", "prompt"}
    => /\ UNCHANGED <<key_few, key_dotfew, api_key, prompted, log,
                      gen_calls, files_written>>
       /\ UNCHANGED <<sources, parseme, readme, words_dir, gitignore,
                      project_words, cache, litany>>

\* what the command has printed when it returns: the note that nothing was
\* found, or the list of the readable files and the prompt over them
PromptPrinted ==
    prompt_pc = "returned"
    => /\ exit_code = 0
       /\ LET found == {f \in SourcePaths : sources[f] = "readable"}
          IN printed = IF found = {} THEN <<"none">>
                       ELSE <<[found |-> found], [prompt |-> found]>>

\* C17: the prompt command runs GATHER and PROMPT only: it makes no
\* generation call, acquires and changes no credential, appends nothing to
\* the log, and creates or changes no file of the project tree, the cache
\* or the manifest.
C17_PromptSideEffectFree ==
    /\ [][PromptStepTouchesNothing]_vars
    /\ []PromptPrinted
    /\ [](gen_calls = 0 /\ prompted = 0)

\* the prompt was printed on a machine that holds a key and a log
C17_Witness ==
    /\ prompt_pc = "returned"
    /\ Len(printed) = 2
    /\ sources["a.few.md"] = "readable"
    /\ sources["sub/b.few.md"] = "unreadable"
    /\ key_few = "k1"
    /\ log = <<"PROMPT", "RESPONSE">>

----------------------------------------------------------------------------
(* Claims about the log and the two retry scopes (specification Spec) *)

PromptRecords == {"PROMPT", "FIX_PROMPT"}
ResponseRecords == {"RESPONSE", "FIX_RESPONSE"}
LastRecord == IF log = <<>> THEN "none" ELSE log[Len(log)]

\* the record each record may follow: a pass opens with PROMPT, RESPONSE
\* answers PROMPT, FIX_PROMPT follows a response, FIX_RESPONSE answers
\* FIX_PROMPT
LogShape ==
    \A i \in 1..Len(log) :
        LET before == IF i = 1 THEN "none" ELSE log[i - 1]
        IN /\ log[i] = "RESPONSE" => before = "PROMPT"
           /\ log[i] = "FIX_PROMPT" => before \in ResponseRecords
           /\ log[i] = "FIX_RESPONSE" => before = "FIX_PROMPT"
           /\ log[i] \in PromptRecords \cup ResponseRecords

\* a generation call is about to be made right after the record of its
\* prompt, a response is parsed after its record, and a prompt record
\* stays unanswered only when its generation call raised
LogTracksCalls ==
    /\ pc = "generate" => LastRecord = "PROMPT"
    /\ pc = "generate_fix" => LastRecord = "FIX_PROMPT"
    /\ pc = "parse" => LastRecord \in ResponseRecords
    /\ (pc \in {"acquire", "returned"} /\ LastRecord \in PromptRecords)
          => pass_raised = "generate"

LogAppendOnly ==
    \/ log' = log
    \/ \E t \in PromptRecords \cup ResponseRecords : log' = Append(log, t)

\* C21: with a working log every generation call comes right after the
\* record of its prompt, every response is recorded before it is parsed,
\* and the log, which is only appended to, is a sequence of passes of the
\* shape PROMPT [RESPONSE (FIX_PROMPT FIX_RESPONSE)*], a last prompt record
\* staying unanswered only when its generation call raised.
C21_LogOrder ==
    /\ [](~log_failed => (LogShape /\ LogTracksCalls))
    /\ [][LogAppendOnly]_vars

\* a fix call raised an authentication error and the restarted pass has
\* its response recorded
C21_Witness ==
    /\ ~log_failed
    /\ pc = "parse"
    /\ log = <<"PROMPT", "RESPONSE", "FIX_PROMPT", "PROMPT", "RESPONSE">>

\* a generation call, initial or fix, that raises an authentication error
\* sends the pipeline back to the acquisition of the key
AuthRestarts ==
    (pc \in {"generate", "generate_fix"} /\ pass_class' = "auth")
    => /\ pc' = "acquire"
       /\ restarted'
       /\ ended' = "none"

\* every pass has the whole repair budget: its first call is the initial
\* one, the retry counter counts the failed parses of this pass only, and
\* no pass makes more than max_retries calls
FreshBudget ==
    /\ pc \in {"log_prompt", "generate"} => gen_calls = 0
    /\ pc = "parse" => retry_count = gen_calls - 1
    /\ pc \in {"log_fix_prompt", "generate_fix"}
          => (retry_count = gen_calls /\ gen_calls < max_retries)
    /\ gen_calls <= max_retries

\* C22: the two retry scopes are separate: an authentication failure of any
\* generation call, a fix call after one or two parse failures included,
\* restarts the pipeline from the acquisition of the key with a fresh
\* repair budget; each pass makes at most 3 generation calls while the
\* calls of all passes together are not bounded by 3.
C22_RetryScopesSeparate ==
    /\ [][AuthRestarts]_vars
    /\ []FreshBudget

\* the second fix call of the first pass raised an authentication error;
\* the second pass has made its initial call, the fourth of the run, and
\* is about to parse with retry counter 0
C22_Witness ==
    /\ ~log_failed
    /\ passes = 2
    /\ pc = "parse"
    /\ retry_count = 0
    /\ gen_calls = 1
    /\ log = <<"PROMPT", "RESPONSE", "FIX_PROMPT", "FIX_RESPONSE",
               "FIX_PROMPT", "PROMPT", "RESPONSE">>

\* the prompt records no response record answers: their generation call
\* raised
Unanswered ==
    {i \in 1..Len(log) :
        /\ log[i] \in PromptRecords
        /\ i < Len(log)
        /\ log[i + 1] = "PROMPT"}

\* the generation calls that returned since the last one that raised, read
\* off a log every write of which succeeded
ReturnedSinceLastRaise ==
    Cardinality({i \in 1..Len(log) :
                    /\ log[i] \in ResponseRecords
                    /\ \A j \in Unanswered : j < i})

\* C23: a run in which only finitely many generation calls fail with an
\* authentication signal terminates, with at most 3 generation calls after
\* the last such failure (the restart loop itself has no cap). The safety
\* part is stated here: never more than 3 generation calls return after the
\* last generation call that raised.
C23_AtMostThreeCallsAfterLastAuthFailure ==
    ~log_failed => ReturnedSinceLastRaise <= max_retries

\* this step writes a project file
WritesFile ==
    \/ files_written' # files_written
    \/ (pc = "materialize" /\ pc' = "materialize" /\ pending' # pending)

\* a file is written only from MATERIALIZE, with the last response of the
\* pass parsed into result, its success member true, and nothing raised or
\* given up in the pass
WriteOnlyAfterParse ==
    WritesFile
    => /\ pc = "materialize"
       /\ ended = "none"
       /\ pass_raised = "none"
       /\ retry_count < max_retries
       /\ gen_calls >= 1
       /\ ParseResponse(response_text).ok
       /\ result = ParseResponse(response_text).value
       /\ "st" \in Range(result)
       /\ "sf" \notin Range(result)
       /\ files_written' = files_written \cup {Head(pending)}

\* C24: a project file is written only after the most recent response of
\* the current pass was parsed and its success flag is true; none is
\* written in GENERATE, PARSE or REPAIR, after the repair budget is used up,
\* or after a quota, authentication or other failure of that pass.
C24_WriteOnlyAfterSuccessfulParse ==
    /\ [][WriteOnlyAfterParse]_vars
    /\ [](pc \notin {"materialize", "returned", "acquire"}
            => (passes = 1 => files_written = {}))
    /\ [](ended \in {"exhausted", "quota", "compile_failed"}
            => (passes = 1 => files_written = {}))

\* the files of a repaired response were written
C24_Witness ==
    /\ ended = "materialized"
    /\ gen_calls = 2
    /\ retry_count = 1
    /\ files_written = {"p1", "p2"}

\* C25: the canonical name n of a reference holds no scheme separator and
\* no path separator, so the litany replay, which resolves n as a reference
\* of its own, takes the bare-name branch: it yields the name n again, the
\* same cache directory and the same project directory as the listen that
\* recorded n, and the default-owner address of n as the place to clone
\* from.
C25_CanonicalNameFixedPoint ==
    /\ (listen_paths.reached
          => \A i \in 1..Len(listen_paths.name) :
                listen_paths.name[i] \notin SlashTokens)
    /\ (litany_paths.reached
          => /\ listen_paths.reached
             /\ listen_paths.name # <<>>
             /\ litany_paths.name = listen_paths.name
             /\ litany_paths.local_repo_path = listen_paths.local_repo_path
             /\ litany_paths.project_word_path
                   = listen_paths.project_word_path
             /\ litany_paths.url
                   = <<"https", "://", "github.com", "/", DEFAULT_USER, "/">>
                     \o listen_paths.name \o <<".git">>)

\* a URL with an empty host and an extension was listened to and replayed:
\* the replay fetches from another address than the listen did
C25_Witness ==
    /\ listen_arg = <<"https", "://", "/", "alpha", ".git">>
    /\ listen_paths.name = <<"alpha">>
    /\ litany_paths.reached
    /\ litany_paths.url # listen_paths.url
    /\ litany_paths.local_repo_path = <<"~/few", "/", "words", "/", "alpha">>

----------------------------------------------------------------------------
(* Specifications *)

Init == InitInterp /\ IdleParse /\ IdleSync /\ IdlePrompt /\ IdleResolve
Spec == Init /\ [][Next]_vars

InitP == InitParse /\ IdleInterp /\ IdleSync /\ IdlePrompt /\ IdleResolve
SpecParse == InitP /\ [][NextParse]_vars

InitB == InitBoot /\ IdleInterp /\ IdleParse /\ IdlePrompt /\ IdleResolve
SpecBoot == InitB /\ [][ListenInit]_vars

InitS == InitSync /\ IdleInterp /\ IdleParse /\ IdlePrompt /\ IdleResolve
SpecSync == InitS /\ [][NextSync]_vars

SpecPrompt == InitPrompt /\ [][NextPrompt]_vars

InitR == InitResolve /\ IdleInterp /\ IdleParse /\ IdleSync /\ IdlePrompt
SpecResolve == InitR /\ [][NextResolve]_vars

====
